---------------------------- MODULE Spec2Model ----------------------------
(***************************************************************************)
(* A model of examples/vhdl/Trivium/cref/trivium64.c: the 64-bit batched   *)
(* Trivium keystream generator (trivium64_next, trivium64_setseed), the    *)
(* word codec (bytes_to_uint64, uint64_to_bytes) and the stream driver     *)
(* (trivium_api).                                                          *)
(*                                                                         *)
(* A uint64_t is the set of the positions of its 1 bits, a subset of       *)
(* 0..63 (bit 0 the least significant): XOR is the symmetric difference,   *)
(* AND the intersection, and a shift drops the bits that leave the word,   *)
(* as unsigned 64-bit arithmetic does.  A uint8_t is a number in 0..255.   *)
(***************************************************************************)
EXTENDS Integers, Sequences, FiniteSets, TLC

(***************************************************************************)
(* Word arithmetic.                                                        *)
(***************************************************************************)
\* The width of uint64_t.
WordBits == 64

\* The width of uint8_t.
ByteBits == 8

BitPos == 0 .. (WordBits - 1)

Zero == {}

XOR(a, b) == (a \ b) \cup (b \ a)

AND(a, b) == a \cap b

OR(a, b) == a \cup b

\* a << k on a uint64_t: the bits shifted past bit 63 are lost.
SHL(a, k) == {i + k : i \in {j \in a : j + k < WordBits}}

\* a >> k on a uint64_t.
SHR(a, k) == {i - k : i \in {j \in a : j >= k}}

Pow2(n) == IF n = 0 THEN 1
           ELSE IF n = 1 THEN 2
           ELSE IF n = 2 THEN 4
           ELSE IF n = 3 THEN 8
           ELSE IF n = 4 THEN 16
           ELSE IF n = 5 THEN 32
           ELSE IF n = 6 THEN 64
           ELSE 128

\* (uint64_t)b for a uint8_t b: the byte's bits, in the low 8 positions.
WordOfByte(b) == {j \in 0 .. (ByteBits - 1) : (b \div Pow2(j)) % 2 = 1}

\* u & 0xff, stored into a uint8_t.
LowByte(u) ==
    LET bit(j) == IF j \in u THEN Pow2(j) ELSE 0
    IN  bit(0) + bit(1) + bit(2) + bit(3) + bit(4) + bit(5) + bit(6) + bit(7)

(***************************************************************************)
(* The word codec.  A C byte array is a function from 0-based indices.     *)
(***************************************************************************)
\* The C array holding the elements of the tuple t.
Arr(t) == [j \in 0 .. (Len(t) - 1) |-> t[j + 1]]

\* The loop of bytes_to_uint64 (lines 80-83) from index i on; n is the value
\* of sizeof(u), where u is the pointer parameter.
RECURSIVE BytesLoop(_, _, _, _)
BytesLoop(bytes, n, i, u) ==
    IF i < n - 1
    THEN BytesLoop(bytes, n, i + 1,
                   OR(u, SHL(WordOfByte(bytes[i]), ((n - 1 - i) * 8) % 256)))
    ELSE u

\* bytes_to_uint64: the word it stores through u.
bytes_to_uint64(bytes, n) == BytesLoop(bytes, n, 0, WordOfByte(bytes[n - 1]))

\* The loop of uint64_to_bytes (lines 87-90) from index i on, writing into
\* buf from offset off; sizeof(u) is the size of a uint64_t here.
RECURSIVE WordLoop(_, _, _, _)
WordLoop(u, buf, off, i) ==
    IF i < WordBits \div ByteBits
    THEN WordLoop(SHR(u, 8), [buf EXCEPT ![off + (WordBits \div ByteBits) - 1 - i] = LowByte(u)],
                  off, i + 1)
    ELSE buf

\* uint64_to_bytes(u, &buf[off]): the buffer it leaves.
uint64_to_bytes(u, buf, off) == WordLoop(u, buf, off, 0)

(***************************************************************************)
(* The six global state words and one keystream step.                      *)
(***************************************************************************)
MkState(a1, a2, b1, b2, c1, c2) ==
    [s11 |-> a1, s12 |-> a2, s21 |-> b1, s22 |-> b2, s31 |-> c1, s32 |-> c2]

\* The tap words of trivium64_next (lines 33-47): bit 63-t of each is the
\* register bit that round t of the 64 batched rounds reads.
s66(S)  == XOR(SHL(S.s12, 62), SHR(S.s11, 2))

\* s93 with the shifts off by one: it reads bit 29 of s12, which lies beyond
\* register A's 93 bits.
s93_off(S) == XOR(SHL(S.s12, 34), SHR(S.s11, 30))

s93(S)  == XOR(SHL(S.s12, 35), SHR(S.s11, 29))

s162(S) == XOR(SHL(S.s22, 59), SHR(S.s21, 5))

s177(S) == XOR(SHL(S.s22, 44), SHR(S.s21, 20))

s243(S) == XOR(SHL(S.s32, 62), SHR(S.s31, 2))

s288(S) == XOR(SHL(S.s32, 17), SHR(S.s31, 47))

s91(S)  == XOR(SHL(S.s12, 37), SHR(S.s11, 27))

s92(S)  == XOR(SHL(S.s12, 36), SHR(S.s11, 28))

s171(S) == XOR(SHL(S.s22, 50), SHR(S.s21, 14))

s175(S) == XOR(SHL(S.s22, 46), SHR(S.s21, 18))

s176(S) == XOR(SHL(S.s22, 45), SHR(S.s21, 19))

s264(S) == XOR(SHL(S.s32, 41), SHR(S.s31, 23))

s286(S) == XOR(SHL(S.s32, 19), SHR(S.s31, 45))

s287(S) == XOR(SHL(S.s32, 18), SHR(S.s31, 46))

s69(S)  == XOR(SHL(S.s12, 59), SHR(S.s11, 5))

\* The rotation with the feedback of registers A and B exchanged.
RotateCrossed(S, t1, t2, t3) == MkState(t1, S.s11, t3, S.s21, t2, S.s31)

\* The rotation (lines 55-60): each newer word moves to the older one, and
\* t3, t1, t2 become the newer words of A, B, C.
Rotate(S, t1, t2, t3) == MkState(t3, S.s11, t1, S.s21, t2, S.s31)

\* trivium64_next: the state it leaves in the six globals (S) and the word
\* it returns (z), from the state S it finds.
trivium64_next(S) ==
    LET t1 == XOR(s66(S), s93(S))
        t2 == XOR(s162(S), s177(S))
        t3 == XOR(s243(S), s288(S))
        z  == XOR(XOR(t1, t2), t3)
        u1 == XOR(t1, XOR(AND(s91(S), s92(S)), s171(S)))
        u2 == XOR(t2, XOR(AND(s175(S), s176(S)), s264(S)))
        u3 == XOR(t3, XOR(AND(s286(S), s287(S)), s69(S)))
    IN  [S |-> Rotate(S, u1, u2, u3), z |-> z]

(***************************************************************************)
(* Seeding.                                                                *)
(***************************************************************************)
\* The literal 0x700000000000 of line 70: 7 << 44.
SeedConstC == {44, 45, 46}

\* One blank round too few.
BlankRoundsShort == 18 - 1

\* The number of blank rounds of trivium64_setseed, line 72.
BlankRounds == 18

\* The six assignments, with the constant in the three lowest bits of s32.
SeedAssignLow(S, seed, seq) ==
    [S EXCEPT !.s11 = seed, !.s12 = Zero, !.s21 = seq, !.s22 = Zero,
              !.s31 = Zero, !.s32 = {0, 1, 2}]

\* The six assignments with "s12 = 0" forgotten: the older word of A keeps
\* what the last keystream left there.
SeedAssignStale(S, seed, seq) ==
    [S EXCEPT !.s11 = seed, !.s21 = seq, !.s22 = Zero,
              !.s31 = Zero, !.s32 = SeedConstC]

\* The six assignments of trivium64_setseed (lines 65-70), which overwrite
\* every state word.
SeedAssign(S, seed, seq) ==
    [S EXCEPT !.s11 = seed, !.s12 = Zero, !.s21 = seq, !.s22 = Zero,
              !.s31 = Zero, !.s32 = SeedConstC]

\* n calls of trivium64_next with the results dropped.
RECURSIVE Blank(_, _)
Blank(S, n) ==
    IF n = 0 THEN S
    ELSE CHOOSE res \in {Blank(r.S, n - 1) : r \in {trivium64_next(S)}} : TRUE

\* trivium64_setseed: the state it leaves.
trivium64_setseed(S, seed, seq) == Blank(SeedAssign(S, seed, seq), BlankRounds)

(***************************************************************************)
(* The program's state.                                                    *)
(***************************************************************************)
VARIABLES
    s11, s12, s21, s22, s31, s32,  \* the global internal state (line 21)
    sizeofPtr,                     \* sizeof(uint64_t *) of the build
    stream,                        \* a caller of trivium64_setseed/_next
    api,                           \* a caller of trivium_api
    codec,                         \* a caller of the two codec functions
    callers                        \* two keystreams sharing the globals

vars == <<s11, s12, s21, s22, s31, s32, sizeofPtr, stream, api, codec, callers>>

Globals == MkState(s11, s12, s21, s22, s31, s32)

Store(S) ==
    /\ s11' = S.s11 /\ s12' = S.s12
    /\ s21' = S.s21 /\ s22' = S.s22
    /\ s31' = S.s31 /\ s32' = S.s32

\* File-scope objects are zero-initialized.
GlobalsInit ==
    /\ s11 = Zero /\ s12 = Zero
    /\ s21 = Zero /\ s22 = Zero
    /\ s31 = Zero /\ s32 = Zero

\* A pointer is 8 bytes on an LP64 build and 4 on an ILP32 one.
PointerSizes == {4, 8}

Idle == [pc |-> "unused"]

(***************************************************************************)
(* Bit-serial Trivium, the reference the batched step is compared with:    *)
(* the 288-bit register is the set of the positions 1..288 that hold a 1.  *)
(***************************************************************************)
\* The register contents the six words stand for: s_1..s_93 are bits 0..63
\* of s11 and 0..28 of s12, s_94..s_177 bits 0..63 of s21 and 0..19 of s22,
\* s_178..s_288 bits 0..63 of s31 and 0..46 of s32.
RegOf(S) ==
    {j + 1 : j \in S.s11} \cup {j + 65 : j \in {x \in S.s12 : x <= 28}}
    \cup {j + 94 : j \in S.s21} \cup {j + 158 : j \in {x \in S.s22 : x <= 19}}
    \cup {j + 178 : j \in S.s31} \cup {j + 242 : j \in {x \in S.s32 : x <= 46}}

\* One single-bit round: the output bit and the shifted register.
SerialRound(R) ==
    LET b(n) == n \in R
        t1 == b(66) # b(93)
        t2 == b(162) # b(177)
        t3 == b(243) # b(288)
        u1 == (t1 # (b(91) /\ b(92))) # b(171)
        u2 == (t2 # (b(175) /\ b(176))) # b(264)
        u3 == (t3 # (b(286) /\ b(287))) # b(69)
    IN  [R |-> {n + 1 : n \in R \ {93, 177, 288}}
               \cup (IF u3 THEN {1} ELSE {})
               \cup (IF u1 THEN {94} ELSE {})
               \cup (IF u2 THEN {178} ELSE {}),
         z |-> (t1 # t2) # t3]

\* Rounds t..n-1 of a block of 64, round t giving bit 63-t of the word w.
RECURSIVE SerialRounds(_, _, _, _)
SerialRounds(R, t, n, w) ==
    IF t = n THEN [R |-> R, z |-> w]
    ELSE CHOOSE res \in
           {SerialRounds(r.R, t + 1, n,
                         IF r.z THEN w \cup {WordBits - 1 - t} ELSE w) :
              r \in {SerialRound(R)}} : TRUE

\* Rounds t..63, eight at a time (which keeps the evaluation shallow).
RECURSIVE Serial64(_, _, _)
Serial64(R, t, w) ==
    IF t = WordBits THEN [R |-> R, z |-> w]
    ELSE CHOOSE res \in
           {Serial64(r.R, t + 8, r.z) : r \in {SerialRounds(R, t, t + 8, w)}} : TRUE

(***************************************************************************)
(* SpecStream: a caller that seeds the generator and then draws words, as  *)
(* the main() at the end of the file does.  trivium64_setseed is taken in  *)
(* its steps: the six assignments, then the 18 blank rounds.  Beside the   *)
(* program run the reference (ser, zser) and, at each step, the same step  *)
(* from the states that differ in the unused high bits of the older words  *)
(* (twins).                                                                *)
(***************************************************************************)
\* The most trivium64_next calls a stream makes after its assignments.
MaxSteps == 20

\* 0x1112131415161718 and 0xAAABACADADAFFFCC, the key and sequence number
\* of main(), byte by byte.
MainKey == Arr(<<17, 18, 19, 20, 21, 22, 23, 24>>)

MainIv == Arr(<<170, 171, 172, 173, 173, 175, 255, 204>>)

\* The word with the 8 bytes b[0]..b[7], most significant first.
WordBE(b) == UNION {SHL(WordOfByte(b[x]), 8 * (7 - x)) : x \in 0 .. 7}

SeedWords == {Zero, BitPos, WordBE(MainKey), WordBE(MainIv)}

\* Bits of the older words beyond the register lengths 93, 84 and 111.
HighA == 29 .. 63

HighB == 20 .. 63

HighC == 47 .. 63

Junks ==
    {[a |-> {}, b |-> {}, c |-> {}],
     [a |-> {29}, b |-> {}, c |-> {}],
     [a |-> {}, b |-> {20}, c |-> {}],
     [a |-> {}, b |-> {}, c |-> {47}],
     [a |-> {63}, b |-> {63}, c |-> {63}],
     [a |-> HighA, b |-> HighB, c |-> HighC]}

\* S with the bits of J flipped in the older words.
Perturb(S, J) ==
    [S EXCEPT !.s12 = XOR(@, J.a), !.s22 = XOR(@, J.b), !.s32 = XOR(@, J.c)]

StreamInit ==
    /\ GlobalsInit
    /\ sizeofPtr \in PointerSizes
    /\ stream = [pc |-> "start", seed |-> Zero, seq |-> Zero, k |-> 0, z |-> Zero,
                 ser |-> {}, zser |-> Zero, twins |-> {}]
    /\ api = Idle /\ codec = Idle /\ callers = Idle

\* trivium64_setseed, lines 65-70.
StreamSeed(seed, seq) ==
    /\ stream.pc = "start"
    /\ Store(SeedAssign(Globals, seed, seq))
    /\ stream' = [stream EXCEPT !.pc = "seeded", !.seed = seed, !.seq = seq,
                                !.ser = RegOf(SeedAssign(Globals, seed, seq))]
    /\ UNCHANGED <<sizeofPtr, api, codec, callers>>

\* One call of trivium64_next: a blank round of trivium64_setseed while
\* k < 18, a call of the caller's after that.  twins collects what the same
\* call gives from each perturbed copy of the state.
StreamNext ==
    /\ stream.pc = "seeded"
    /\ stream.k < MaxSteps
    /\ LET r == trivium64_next(Globals)
           q == Serial64(stream.ser, 0, Zero)
       IN  /\ Store(r.S)
           /\ stream' = [stream EXCEPT
                           !.k = @ + 1, !.z = r.z, !.ser = q.R, !.zser = q.z,
                           !.twins = {trivium64_next(Perturb(Globals, J)) : J \in Junks}]
    /\ UNCHANGED <<sizeofPtr, api, codec, callers>>

StreamStep ==
    \/ \E seed \in SeedWords, seq \in SeedWords : StreamSeed(seed, seq)
    \/ StreamNext

SpecStream == StreamInit /\ [][StreamStep]_vars

\* C1: every word trivium64_next returns, from the first call after the six
\* assignments of the seeding on, is the word that 64 rounds of bit-serial
\* Trivium give from the same register contents, round t in bit 63-t.
C1_BatchedEqualsSerial ==
    (stream.pc = "seeded" /\ stream.k >= 1) => stream.z = stream.zser

\* A keystream word past the blank rounds that the reference gives too.
C1_Witness ==
    /\ stream.pc = "seeded" /\ stream.k = BlankRounds + 2
    /\ stream.z = stream.zser /\ stream.z # Zero
    /\ RegOf(Globals) = stream.ser

\* C8 as stated: after the six assignments A = (key, 0), B = (seq, 0) and
\* C = (0, K) with K non-zero and bits 0, 1, 2 of K set.
C8_LowBitsSet ==
    (stream.pc = "seeded" /\ stream.k = 0) =>
        /\ Globals = MkState(stream.seed, Zero, stream.seq, Zero, Zero, s32)
        /\ s32 # Zero
        /\ {0, 1, 2} \subseteq s32

\* C8 amended: after the six assignments A = (key, 0), B = (seq, 0) and
\* C = (0, K) with K = 0x700000000000, whose only set bits are 44, 45, 46
\* (the register positions s_286, s_287, s_288).
C8_SeedAssignment ==
    (stream.pc = "seeded" /\ stream.k = 0) =>
        /\ Globals = MkState(stream.seed, Zero, stream.seq, Zero, Zero, {44, 45, 46})
        /\ {n \in RegOf(Globals) : n > 242} = {286, 287, 288}

\* The state right after the assignments, for a non-zero key and number.
C8_Witness ==
    /\ stream.pc = "seeded" /\ stream.k = 0
    /\ s11 = WordBE(MainKey) /\ s21 = WordBE(MainIv) /\ s32 # Zero

\* C10: the word returned and the six words left by one trivium64_next do
\* not depend on bits 29..63 of s12, 20..63 of s22 or 47..63 of s32: from
\* every perturbed copy of the state the call gives what it gave here.
C10_HighBitsIgnored ==
    (stream.pc = "seeded" /\ stream.k >= 1) =>
        stream.twins = {[S |-> Globals, z |-> stream.z]}

\* A step taken from a state whose older words had high bits set.
C10_Witness ==
    /\ stream.pc = "seeded" /\ stream.k >= 2
    /\ stream.twins = {[S |-> Globals, z |-> stream.z]}
    /\ s12 \cap HighA # {} /\ s22 \cap HighB # {} /\ s32 \cap HighC # {}

(***************************************************************************)
(* Spec: a caller of trivium_api, which is taken in its steps: the decoding *)
(* of key and iv and the six assignments of the seeding, each blank round, *)
(* each block of the fill loop, the tail.  Between two calls the caller    *)
(* may draw a word with trivium64_next itself.  The caller hands in a      *)
(* buffer it has not initialized; ref keeps the arguments and the output   *)
(* of the first call made.                                                 *)
(***************************************************************************)
\* The longest output asked for.
MaxLen == 17

\* The calls of trivium_api one run makes.
MaxCalls == 2

\* The room the caller's buffer has beyond MaxLen.
BufSlack == 8

BufCap == MaxLen + BufSlack

\* A byte of the buffer that nothing has been stored in (no uint8_t value).
Unset == 0 - 1

FreshBuffer == [j \in 0 .. (BufCap - 1) |-> Unset]

\* The (key, iv) pairs the callers pass.
Inputs ==
    {[key |-> MainKey, iv |-> MainIv],
     [key |-> Arr(<<0, 0, 0, 0, 0, 0, 0, 1>>), iv |-> Arr(<<128, 0, 0, 0, 0, 0, 0, 0>>)]}

NoRef == [set |-> FALSE]

ApiInit ==
    /\ GlobalsInit
    /\ sizeofPtr \in PointerSizes
    /\ api = [pc |-> "idle", key |-> MainKey, iv |-> MainIv, ks_size |-> 0,
              remainder |-> 0, i |-> 0, ks64 |-> Zero, ks |-> FreshBuffer,
              trace |-> <<>>, ref |-> NoRef, ncalls |-> 0, strayed |-> FALSE]
    /\ stream = Idle /\ codec = Idle /\ callers = Idle

\* The fill loop's condition with the remainder forgotten.
FillCondWhole(i, ks_size, remainder) == i < ks_size

\* The fill loop's condition, line 104.
FillCond(i, ks_size, remainder) == i < ks_size - remainder

\* The tail's index with the offset forgotten.
TailIndexNoOffset(ks_size, remainder, i) == i

\* The index the tail loop stores to, line 114.
TailIndex(ks_size, remainder, i) == ks_size - remainder + i

\* The tail loop (lines 113-115) from index i on.
RECURSIVE TailLoop(_, _, _, _, _)
TailLoop(ks, ks_size, remainder, ks64, i) ==
    IF i < remainder
    THEN TailLoop([ks EXCEPT ![TailIndex(ks_size, remainder, i)] =
                                 LowByte(SHR(ks64, 7 - i))],
                  ks_size, remainder, ks64, i + 1)
    ELSE ks

\* Lines 97-100 up to the assignments of trivium64_setseed.
ApiCall(in, n) ==
    /\ api.pc = "idle"
    /\ api.ncalls < MaxCalls
    /\ Store(SeedAssign(Globals, bytes_to_uint64(in.key, sizeofPtr),
                        bytes_to_uint64(in.iv, sizeofPtr)))
    /\ api' = [api EXCEPT !.pc = "blank", !.key = in.key, !.iv = in.iv,
                          !.ks_size = n, !.remainder = 0, !.i = 0, !.ks64 = Zero,
                          !.ks = FreshBuffer, !.trace = <<>>]
    /\ UNCHANGED <<sizeofPtr, stream, codec, callers>>

\* One blank round, lines 72-74.
ApiBlank ==
    /\ api.pc = "blank"
    /\ api.i < BlankRounds
    /\ Store(trivium64_next(Globals).S)
    /\ api' = [api EXCEPT !.i = @ + 1, !.trace = Append(@, "blank")]
    /\ UNCHANGED <<sizeofPtr, stream, codec, callers>>

\* trivium64_setseed returns; line 102 and the loop's "i = 0".
ApiSeeded ==
    /\ api.pc = "blank"
    /\ ~(api.i < BlankRounds)
    /\ api' = [api EXCEPT !.pc = "fill", !.remainder = api.ks_size % 8, !.i = 0]
    /\ UNCHANGED <<s11, s12, s21, s22, s31, s32, sizeofPtr, stream, codec, callers>>

\* One round of the fill loop, lines 104-108.
ApiFill ==
    /\ api.pc = "fill"
    /\ FillCond(api.i, api.ks_size, api.remainder)
    /\ LET r == trivium64_next(Globals)
       IN  /\ Store(r.S)
           /\ api' = [api EXCEPT !.ks64 = r.z,
                                 !.ks = uint64_to_bytes(r.z, @, api.i),
                                 !.i = @ + 8,
                                 !.trace = Append(@, "block")]
    /\ UNCHANGED <<sizeofPtr, stream, codec, callers>>

\* The tail, lines 110-116, once the fill loop has ended.
ApiTail ==
    /\ api.pc = "fill"
    /\ ~FillCond(api.i, api.ks_size, api.remainder)
    /\ api.remainder # 0
    /\ LET r == trivium64_next(Globals)
       IN  /\ Store(r.S)
           /\ api' = [api EXCEPT !.pc = "done", !.ks64 = r.z,
                                 !.ks = TailLoop(@, api.ks_size, api.remainder, r.z, 0),
                                 !.trace = Append(@, "tail")]
    /\ UNCHANGED <<sizeofPtr, stream, codec, callers>>

\* No tail: "if (remainder)" is false.
ApiNoTail ==
    /\ api.pc = "fill"
    /\ ~FillCond(api.i, api.ks_size, api.remainder)
    /\ api.remainder = 0
    /\ api' = [api EXCEPT !.pc = "done"]
    /\ UNCHANGED <<s11, s12, s21, s22, s31, s32, sizeofPtr, stream, codec, callers>>

\* trivium_api returns; the caller keeps the first call's result.
ApiReturn ==
    /\ api.pc = "done"
    /\ api' = [api EXCEPT !.pc = "idle", !.ncalls = @ + 1, !.strayed = FALSE,
                          !.ref = IF api.ref.set THEN @
                                  ELSE [set |-> TRUE, key |-> api.key, iv |-> api.iv,
                                        ks_size |-> api.ks_size, ks |-> api.ks]]
    /\ UNCHANGED <<s11, s12, s21, s22, s31, s32, sizeofPtr, stream, codec, callers>>

\* Between two calls the caller draws one word with trivium64_next.
ApiStray ==
    /\ api.pc = "idle"
    /\ api.ncalls \in 1 .. (MaxCalls - 1)
    /\ ~api.strayed
    /\ Store(trivium64_next(Globals).S)
    /\ api' = [api EXCEPT !.strayed = TRUE]
    /\ UNCHANGED <<sizeofPtr, stream, codec, callers>>

Next ==
    \/ \E in \in Inputs, n \in 0 .. MaxLen : ApiCall(in, n)
    \/ ApiBlank
    \/ ApiSeeded
    \/ ApiFill
    \/ ApiTail
    \/ ApiNoTail
    \/ ApiReturn
    \/ ApiStray

Spec == ApiInit /\ [][Next]_vars

SameInput == api.ref.set /\ api.ref.key = api.key /\ api.ref.iv = api.iv

Written == {j \in DOMAIN api.ks : api.ks[j] # Unset}

\* C2: a call of trivium_api with the arguments of the first call returns
\* the bytes the first call returned, whatever the calls in between (that
\* call, and a trivium64_next of the caller's) left in the six state words.
C2_Deterministic ==
    (api.pc = "done" /\ SameInput /\ api.ref.ks_size = api.ks_size) =>
        api.ks = api.ref.ks

\* A second call with the first call's arguments, made after the caller
\* drew a word of its own, so from state words unlike those of the first.
C2_Witness ==
    /\ api.pc = "done" /\ SameInput /\ api.strayed
    /\ api.ks_size = 13 /\ api.ref.ks_size = 13
    /\ api.ks = api.ref.ks
    /\ Written = 0 .. 12

\* C3: for the same key and iv, the output for a length n that is a
\* multiple of 8 is the first n bytes of the output for every length
\* n + m, m >= 0, a multiple of 8 or not (whichever call came first).
C3_Prefix ==
    (api.pc = "done" /\ SameInput) =>
        /\ (api.ref.ks_size % 8 = 0 /\ api.ref.ks_size <= api.ks_size) =>
              \A j \in 0 .. (api.ref.ks_size - 1) : api.ks[j] = api.ref.ks[j]
        /\ (api.ks_size % 8 = 0 /\ api.ks_size <= api.ref.ks_size) =>
              \A j \in 0 .. (api.ks_size - 1) : api.ks[j] = api.ref.ks[j]

\* 16 bytes, then 17 for the same key and iv.
C3_Witness ==
    /\ api.pc = "done" /\ SameInput
    /\ api.ref.ks_size = 16 /\ api.ks_size = 17
    /\ \A j \in 0 .. 15 : api.ks[j] = api.ref.ks[j] /\ api.ks[j] # Unset
    /\ api.ks[16] # Unset

\* C4 as stated: with r = length mod 8 not 0, tail byte i (0 <= i < r) is
\* byte i of the last word z in big-endian order, (z >> (56 - 8*i)) & 0xFF.
C4_TailBigEndian ==
    (api.pc = "done" /\ api.remainder # 0) =>
        \A i \in 0 .. (api.remainder - 1) :
            api.ks[api.ks_size - api.remainder + i] = LowByte(SHR(api.ks64, 56 - 8 * i))

\* C6: trivium_api stores a byte at every index below ks_size and at no
\* index from ks_size on, at any point of the call.
C6_WritesExactly ==
    /\ api.pc \in {"blank", "fill", "done"} =>
          \A j \in api.ks_size .. (BufCap - 1) : api.ks[j] = Unset
    /\ api.pc = "done" => Written = 0 .. (api.ks_size - 1)

\* Five bytes asked for: indices 0..4 written, the rest untouched.
C6_Witness ==
    /\ api.pc = "done" /\ api.ks_size = 5
    /\ Written = 0 .. 4
    /\ api.ks[5] = Unset

\* C9: a call makes 18 blank rounds, then one trivium64_next for each full
\* block of 8 bytes, then one more exactly when ks_size mod 8 is not 0, and
\* no others; no byte is stored before the blank rounds are over.
C9_StepCount ==
    /\ api.pc = "done" =>
          api.trace =
            [x \in 1 .. (18 + (api.ks_size \div 8)
                            + (IF api.ks_size % 8 # 0 THEN 1 ELSE 0)) |->
               IF x <= 18 THEN "blank"
               ELSE IF x <= 18 + (api.ks_size \div 8) THEN "block" ELSE "tail"]
    /\ api.pc = "blank" => api.ks = FreshBuffer

\* 17 bytes: 18 blank rounds, two blocks and the tail.
C9_Witness ==
    /\ api.pc = "done" /\ api.ks_size = 17
    /\ Len(api.trace) = 21
    /\ api.trace[18] = "blank" /\ api.trace[19] = "block" /\ api.trace[21] = "tail"

(***************************************************************************)
(* SpecCodec: a caller of the two codec functions, who decodes a buffer    *)
(* and encodes the word again, or encodes a word and decodes the bytes.    *)
(***************************************************************************)
\* The buffers decoded: every mix of the bytes 0x00 and 0x81, and the key
\* and sequence number of main().
CodecBufs == [0 .. 7 -> {0, 129}] \cup {MainKey, MainIv}

\* The words encoded.
CodecWords == {WordBE(b) : b \in CodecBufs} \cup {BitPos}

\* An 8-byte buffer before anything is stored in it.
FreshBytes == [j \in 0 .. 7 |-> Unset]

CodecInit ==
    /\ GlobalsInit
    /\ sizeofPtr \in PointerSizes
    /\ \/ \E b \in CodecBufs :
            codec = [pc |-> "bytes", b0 |-> b, w0 |-> Zero, b |-> b, w |-> Zero]
       \/ \E w \in CodecWords :
            codec = [pc |-> "word", b0 |-> FreshBytes, w0 |-> w, b |-> FreshBytes, w |-> w]
    /\ stream = Idle /\ api = Idle /\ callers = Idle

\* bytes_to_uint64(b, &w) on the caller's buffer.
CodecDecode ==
    /\ codec.pc = "bytes"
    /\ codec' = [codec EXCEPT !.pc = "decoded", !.w = bytes_to_uint64(codec.b, sizeofPtr)]
    /\ UNCHANGED <<s11, s12, s21, s22, s31, s32, sizeofPtr, stream, api, callers>>

\* uint64_to_bytes(w, b) on the word just decoded.
CodecEncodeBack ==
    /\ codec.pc = "decoded"
    /\ codec' = [codec EXCEPT !.pc = "bytes_back", !.b = uint64_to_bytes(codec.w, FreshBytes, 0)]
    /\ UNCHANGED <<s11, s12, s21, s22, s31, s32, sizeofPtr, stream, api, callers>>

\* uint64_to_bytes(w, b) on the caller's word.
CodecEncode ==
    /\ codec.pc = "word"
    /\ codec' = [codec EXCEPT !.pc = "encoded", !.b = uint64_to_bytes(codec.w, FreshBytes, 0)]
    /\ UNCHANGED <<s11, s12, s21, s22, s31, s32, sizeofPtr, stream, api, callers>>

\* bytes_to_uint64(b, &w) on the bytes just encoded.
CodecDecodeBack ==
    /\ codec.pc = "encoded"
    /\ codec' = [codec EXCEPT !.pc = "word_back", !.w = bytes_to_uint64(codec.b, sizeofPtr)]
    /\ UNCHANGED <<s11, s12, s21, s22, s31, s32, sizeofPtr, stream, api, callers>>

CodecStep ==
    \/ CodecDecode
    \/ CodecEncodeBack
    \/ CodecEncode
    \/ CodecDecodeBack

SpecCodec == CodecInit /\ [][CodecStep]_vars

\* C5: the codec functions are mutually inverse: encoding the word decoded
\* from an 8-byte buffer gives the buffer back, and decoding the bytes
\* encoded from a word gives the word back.
C5_RoundTrip ==
    /\ codec.pc = "bytes_back" => codec.b = codec.b0
    /\ codec.pc = "word_back" => codec.w = codec.w0

(***************************************************************************)
(* SpecConc: two logical callers, each producing its own keystream with    *)
(* the steps of trivium_api, a whole call of trivium64_setseed or of       *)
(* trivium64_next at a time, in any interleaving.  Each has its own        *)
(* arguments and buffer; the six state words are the program's globals.    *)
(***************************************************************************)
\* The fill loop (lines 104-108) from index i on.
RECURSIVE FillLoop(_, _, _, _, _)
FillLoop(S, ks, ks_size, remainder, i) ==
    IF FillCond(i, ks_size, remainder)
    THEN CHOOSE res \in
           {FillLoop(r.S, uint64_to_bytes(r.z, ks, i), ks_size, remainder, i + 8) :
              r \in {trivium64_next(S)}} : TRUE
    ELSE [S |-> S, ks |-> ks]

\* The tail (lines 110-116).
TailPart(S, ks, ks_size, remainder) ==
    IF remainder # 0
    THEN LET r == trivium64_next(S)
         IN  [S |-> r.S, ks |-> TailLoop(ks, ks_size, remainder, r.z, 0)]
    ELSE [S |-> S, ks |-> ks]

\* A whole call of trivium_api from the state words S, with n the value of
\* sizeof(u) in bytes_to_uint64: the state words and the buffer it leaves.
trivium_api(S, key, iv, ks_size, ks, n) ==
    LET seeded == trivium64_setseed(S, bytes_to_uint64(key, n), bytes_to_uint64(iv, n))
        filled == FillLoop(seeded, ks, ks_size, ks_size % 8, 0)
    IN  TailPart(filled.S, filled.ks, ks_size, ks_size % 8)

\* The lengths the two callers ask for.
ConcLens == {0, 5, 8, 13, 16}

Callers == {1, 2}

ConcInit ==
    /\ GlobalsInit
    /\ sizeofPtr \in PointerSizes
    /\ \E in1 \in Inputs, in2 \in Inputs, n1 \in ConcLens, n2 \in ConcLens :
         callers = [c \in Callers |->
                      [pc |-> "start",
                       key |-> IF c = 1 THEN in1.key ELSE in2.key,
                       iv |-> IF c = 1 THEN in1.iv ELSE in2.iv,
                       ks_size |-> IF c = 1 THEN n1 ELSE n2,
                       remainder |-> 0, i |-> 0, ks |-> FreshBuffer]]
    /\ stream = Idle /\ api = Idle /\ codec = Idle

\* Caller c seeds its keystream: lines 97-102.
ConcSeed(c) ==
    /\ callers[c].pc = "start"
    /\ Store(trivium64_setseed(Globals, bytes_to_uint64(callers[c].key, sizeofPtr),
                              bytes_to_uint64(callers[c].iv, sizeofPtr)))
    /\ callers' = [callers EXCEPT ![c].pc = "fill",
                                  ![c].remainder = callers[c].ks_size % 8]
    /\ UNCHANGED <<sizeofPtr, stream, api, codec>>

\* Caller c draws the word of its next block: lines 105-107.
ConcFill(c) ==
    /\ callers[c].pc = "fill"
    /\ FillCond(callers[c].i, callers[c].ks_size, callers[c].remainder)
    /\ LET r == trivium64_next(Globals)
       IN  /\ Store(r.S)
           /\ callers' = [callers EXCEPT
                            ![c].ks = uint64_to_bytes(r.z, @, callers[c].i),
                            ![c].i = @ + 8]
    /\ UNCHANGED <<sizeofPtr, stream, api, codec>>

\* Caller c draws the word of its tail, if it has one, and is done.
ConcTail(c) ==
    /\ callers[c].pc = "fill"
    /\ ~FillCond(callers[c].i, callers[c].ks_size, callers[c].remainder)
    /\ LET r == TailPart(Globals, callers[c].ks, callers[c].ks_size, callers[c].remainder)
       IN  /\ Store(r.S)
           /\ callers' = [callers EXCEPT ![c].pc = "done", ![c].ks = r.ks]
    /\ UNCHANGED <<sizeofPtr, stream, api, codec>>

ConcStep ==
    \E c \in Callers :
        \/ ConcSeed(c)
        \/ ConcFill(c)
        \/ ConcTail(c)

SpecConc == ConcInit /\ [][ConcStep]_vars

\* C7: whatever the interleaving, each caller ends with the output that a
\* call of trivium_api with its arguments alone produces.
C7_NoInterference ==
    \A c \in Callers :
        callers[c].pc = "done" =>
            callers[c].ks = trivium_api(MkState(Zero, Zero, Zero, Zero, Zero, Zero),
                                       callers[c].key, callers[c].iv,
                                       callers[c].ks_size, FreshBuffer, sizeofPtr).ks

=============================================================================
